---- MODULE Spec2Model ----
(***************************************************************************)
(* Model of the Telegram MCP server: the TelegramUserClient wrapper        *)
(* (telegram_client.py), the MCP tool handlers of main.py (authenticate,   *)
(* call_tool, initialize_telegram_client) and the serverless               *)
(* authentication endpoint of api/index.py.                                *)
(*                                                                         *)
(* The Telethon client is the external provider.  Each provider call of a  *)
(* handler is recorded, in order, with the outcome the provider gave; the  *)
(* outcome is chosen among the ones that call can produce.  A handler is   *)
(* an operator over a "run" (the client object, the calls issued so far    *)
(* and the provider's answers), written statement by statement after the   *)
(* Python source; Runs enumerates the provider's answers call by call.     *)
(***************************************************************************)
EXTENDS Integers, Sequences, FiniteSets, TLC

VARIABLES
    TELEGRAM_API_ID,    \* the TELEGRAM_API_ID environment variable
    TELEGRAM_API_HASH,  \* the TELEGRAM_API_HASH environment variable
    TELEGRAM_SESSION,   \* the TELEGRAM_SESSION environment variable
    telegram_client,    \* main.py's global client (created = FALSE models None)
    last,               \* the request being answered: entry point, tool name, arguments
    result,             \* what its handler returned
    calls,              \* the provider calls the handler issued, in order, with outcomes
    pre,                \* the client it ran against, as it was before the call
    post,               \* and as it was when the call returned
    scen,               \* progress of the login scenario (history variable)
    constructed,        \* how many times main.py constructed its global client
    start_calls,        \* how many times main.py called start() on its global client
    tasks,              \* the concurrent tool calls of main.py: where each one is
    data                \* a get_chats or get_messages call: what the provider
                        \* held and what the call returned

vars ==
    <<TELEGRAM_API_ID, TELEGRAM_API_HASH, TELEGRAM_SESSION, telegram_client, last,
      result, calls, pre, post, scen, constructed, start_calls, tasks, data>>

---------------------------------------------------------------------------
(* Values *)

\* Python's None, for an argument or a field
None == "None"

\* Python truthiness of an optional string: None and '' are falsy
Truthy(x) == x \notin {None, ""}

\* a or b, on optional strings
PyOr(a, b) == IF Truthy(a) THEN a ELSE b

\* session strings: none, one the provider accepts, one it no longer accepts
VALID_SESSION == "1BVtsOK-valid"
REVOKED_SESSION == "1BVtsOK-revoked"
\* the values of TELEGRAM_API_ID and TELEGRAM_API_HASH tried: unset, empty,
\* the credentials of the application, an id that is no number
ApiIds == {None, "", "12345678", "abc"}
ApiHashes == {None, "", "0123456789abcdef"}

\* int(s) raises ValueError, for the ids tried
int_raises(s) == s \in {"abc"}

SessionStrings == {"", VALID_SESSION, REVOKED_SESSION}

\* what the account on the provider's side accepts
GoodPhone == "+15551234567"
BadPhone == "12"
GoodCode == "12345"
WrongCode == "00000"
GoodPassword == "right"
WrongPassword == "wrong"

\* the Telethon exceptions the handlers name, and two they do not
Exceptions ==
    {"ApiIdInvalidError", "PhoneNumberInvalidError", "PhoneCodeInvalidError",
     "PhoneCodeExpiredError", "SessionPasswordNeededError",
     "PasswordHashInvalidError", "FloodWaitError", "ConnectionError",
     "MessageEmptyError"}

\* the message of the exception ensure_connected raises
NotAuthenticatedMessage == "Not authenticated. Please authenticate first."

\* the arguments of a provider call
Arg(phone, code, password) == [phone |-> phone, code |-> code, password |-> password]
NoArg == Arg(None, None, None)

---------------------------------------------------------------------------
(* The client object *)

\* telegram_client = None
NoClient ==
    [created |-> FALSE, session_string |-> "", is_authenticated |-> FALSE,
     connected |-> FALSE, authorized |-> FALSE]

\* TelegramUserClient(api_id, api_hash, session_string): the session string
\* falls back to the environment; the provider session is authorized iff the
\* string is one the provider accepts
TelegramUserClient(session_string, env) ==
    LET s == IF Truthy(session_string) THEN session_string ELSE env
    IN  [created |-> TRUE, session_string |-> s, is_authenticated |-> FALSE,
         connected |-> FALSE, authorized |-> (s = VALID_SESSION)]

\* variant: the string the client was constructed with is returned
get_session_string_stale(c) == c.session_string

\* client.session.save(): the serialized session the client holds now
get_session_string(c) ==
    IF c.authorized THEN VALID_SESSION ELSE c.session_string

---------------------------------------------------------------------------
(* The provider *)

\* the outcomes provider call `name` can have on client c with arguments a
Outcomes(name, c, a) ==
    CASE name = "connect" -> {"ok", "ConnectionError"}
      [] name = "is_user_authorized" ->
            {IF c.authorized THEN "True" ELSE "False", "ConnectionError"}
      [] name = "get_me" -> {"ok", "ConnectionError"}
      [] name = "send_code_request" ->
            (IF a.phone = GoodPhone THEN {"ok"} ELSE {"PhoneNumberInvalidError"})
            \cup {"ApiIdInvalidError", "FloodWaitError", "ConnectionError"}
      [] name = "sign_in" ->
            (IF a.phone # GoodPhone THEN {"PhoneNumberInvalidError"}
             ELSE IF a.code # GoodCode THEN {"PhoneCodeInvalidError"}
             ELSE {"ok", "SessionPasswordNeededError"})
            \cup {"PhoneCodeExpiredError", "FloodWaitError", "ApiIdInvalidError",
                  "ConnectionError"}
      [] name = "sign_in_password" ->
            (IF a.password = GoodPassword THEN {"ok"}
             ELSE {"PasswordHashInvalidError"})
            \cup {"FloodWaitError", "ConnectionError"}
      [] name \in {"iter_dialogs", "iter_messages"} ->
            {"ok", "FloodWaitError", "ConnectionError"}
      [] name = "send_message" ->
            (IF a.text = "" THEN {"MessageEmptyError"} ELSE {"ok"})
            \cup {"FloodWaitError", "ConnectionError"}
      [] name = "disconnect" -> {"ok", "ConnectionError"}

\* what an answered provider call does to the client
Effect(name, out, c, a) ==
    CASE name = "connect" /\ out = "ok" -> [c EXCEPT !.connected = TRUE]
      [] name = "disconnect" /\ out = "ok" -> [c EXCEPT !.connected = FALSE]
      [] name \in {"sign_in", "sign_in_password"} /\ out = "ok" ->
            [c EXCEPT !.authorized = TRUE]
      [] OTHER -> c

---------------------------------------------------------------------------
(* Runs *)

\* what a handler returns: a status (the 'status' of a dict, the headline of a
\* text), whether it carries the user's identity, the session string it
\* carries ("" for none), the exception text it carries ("" for none);
\* wait_seconds is the number of seconds to wait it tells ("" for none)
Result(status, user, session, message) ==
    [session_string |-> "", status |-> status, user |-> user, session |-> session,
     message |-> message, error_type |-> "", chat_id |-> "", wait_seconds |-> ""]
NoResult == Result("none", FALSE, "", "")

\* the arguments of a provider call that reads or writes chats
DataArg(chat_id, limit, offset_id, text, reply_to) ==
    [text |-> text, chat_id |-> chat_id, limit |-> limit, offset_id |-> offset_id,
     reply_to |-> reply_to]

\* the chat the provider resolves a chat id to: a username resolves to the
\* numeric id of its chat
PeerOf(chat_id) == IF chat_id = "@telegram" THEN "777000" ELSE chat_id

\* a handler starting on client c, the provider answering with `script`.
\* out is the value of the last provider call or the exception being raised,
\* ret says that the function has returned, res is what it returned; need
\* names the provider call whose answer the script does not hold yet; made
\* and starts count the clients main.py constructed and the start() calls it
\* made on its global client
NewRun(c, script) ==
    [calls |-> <<>>, c |-> c, out |-> "ok", script |-> script,
     ret |-> FALSE, res |-> NoResult,
     need |-> "", needc |-> c, needa |-> NoArg, made |-> 0, starts |-> 0]

\* an exception is propagating
Raising(r) == r.need = "" /\ ~r.ret /\ r.out \notin {"ok", "True", "False"}

\* the next statement executes
Running(r) == r.need = "" /\ ~r.ret /\ r.out \in {"ok", "True", "False"}

\* raise Exception(message)
Raise(r, message) == IF Running(r) THEN [r EXCEPT !.out = message] ELSE r

\* an except clause took the exception: execution goes on in its body
Caught(r) == IF Raising(r) THEN [r EXCEPT !.out = "ok"] ELSE r

\* the provider function that raised
RaisedBy(r) == IF r.calls = <<>> THEN "" ELSE r.calls[Len(r.calls)].name

\* await self.client.<name>(...)
Call(r, name, a) ==
    IF ~Running(r) THEN r
    ELSE IF Len(r.calls) >= Len(r.script)
    THEN [r EXCEPT !.need = name, !.needc = r.c, !.needa = a]
    ELSE [r EXCEPT !.c = Effect(name, r.script[Len(r.calls) + 1], r.c, a),
                   !.calls = Append(r.calls, [name |-> name,
                                              out |-> r.script[Len(r.calls) + 1],
                                              arg |-> a]),
                   !.out = r.script[Len(r.calls) + 1]]

\* return res
Return(r, res) == IF Running(r) THEN [r EXCEPT !.ret = TRUE, !.res = res] ELSE r

\* the caller goes on after the call returned
Resume(r) == IF r.need = "" /\ r.ret THEN [r EXCEPT !.ret = FALSE, !.out = "ok"] ELSE r

\* e.seconds of the provider's FloodWaitError, as it is printed
WaitSeconds == "30"

\* an except clause that returns a result carrying str(e)
ReturnError(r, status) ==
    IF Raising(r)
    THEN [r EXCEPT !.ret = TRUE, !.res = Result(status, FALSE, "", r.out), !.out = "ok"]
    ELSE r

---------------------------------------------------------------------------
(* telegram_client.py *)

\* an except FloodWaitError clause that returns a result telling e.seconds
ReturnRateLimited(r, status) ==
    IF Raising(r)
    THEN [ReturnError(r, status) EXCEPT !.res.wait_seconds = WaitSeconds]
    ELSE r

\* self._is_authenticated = True
SetAuthenticated(r) ==
    IF Running(r) THEN [r EXCEPT !.c.is_authenticated = TRUE] ELSE r

\* start: return {'status': 'authenticated', 'user': ..., 'session': save()}
ReturnAuthenticated(r) ==
    Return(r, Result("authenticated", TRUE, get_session_string(r.c), ""))

\* variant: `if phone is None`
phone_missing_none(phone) == phone = None

\* start: `if not phone`
phone_missing(phone) == ~Truthy(phone)

\* variant: the answer of is_user_authorized() is not looked at
start_authorized_unchecked(r) ==
    IF Running(r)
    THEN ReturnAuthenticated(Call(SetAuthenticated(r), "get_me", NoArg))
    ELSE r

\* start: the provider said whether the stored session is authorized
start_authorized(r) ==
    IF Running(r) /\ r.out = "True"
    THEN ReturnAuthenticated(Call(SetAuthenticated(r), "get_me", NoArg))
    ELSE r

\* variant: a stored session the provider does not accept ends start() with an
\* error
start_session_strict(r) ==
    IF Truthy(r.c.session_string)
    THEN LET q == Call(Call(r, "connect", NoArg), "is_user_authorized", NoArg)
         IN  IF Running(q) /\ q.out = "False"
             THEN Return(q, Result("error", FALSE, "", "Session expired"))
             ELSE start_authorized(q)
    ELSE r

\* start: `if self.session_string:` connect with the existing session
start_session(r) ==
    IF Truthy(r.c.session_string)
    THEN start_authorized(Call(Call(r, "connect", NoArg), "is_user_authorized", NoArg))
    ELSE r

\* variant: the second factor is tried whether or not a password was given
start_password_always(r, password) ==
    IF Raising(r) /\ r.out = "SessionPasswordNeededError" /\ RaisedBy(r) # "connect"
    THEN ReturnAuthenticated(
            Call(SetAuthenticated(
                   Call(Caught(r), "sign_in_password", Arg(None, None, password))),
                 "get_me", NoArg))
    ELSE r

\* start: except SessionPasswordNeededError, around the sign-in with the code
start_password(r, password) ==
    IF Raising(r) /\ r.out = "SessionPasswordNeededError" /\ RaisedBy(r) # "connect"
    THEN IF ~Truthy(password)
         THEN Return(Caught(r), Result("needs_password", FALSE, "", ""))
         ELSE ReturnAuthenticated(
                Call(SetAuthenticated(
                       Call(Caught(r), "sign_in_password", Arg(None, None, password))),
                     "get_me", NoArg))
    ELSE r

\* start: "Need to authenticate", the phone flow
start_phone(r, phone, code, password) ==
    IF phone_missing(phone)
    THEN Return(r, Result("needs_phone", FALSE, "", ""))
    ELSE IF ~Truthy(code)
    THEN Return(Call(Call(r, "connect", NoArg),
                     "send_code_request", Arg(phone, None, None)),
                Result("needs_code", FALSE, "", ""))
    ELSE start_password(
            ReturnAuthenticated(
                Call(SetAuthenticated(
                       Call(Call(r, "connect", NoArg), "sign_in", Arg(phone, code, None))),
                     "get_me", NoArg)),
            password)

\* TelegramUserClient.start(phone, code, password); the except Exception
\* around it all returns {'status': 'error', 'message': str(e)}
start(r, phone, code, password) ==
    ReturnError(start_phone(start_session(r), phone, code, password), "error")

\* variant: an unauthorized session is let through
ensure_authorized_noraise(r) == SetAuthenticated(r)

\* ensure_connected: the provider said whether the session is authorized
ensure_authorized(r) ==
    IF ~Running(r) THEN r
    ELSE IF r.out = "False" THEN Raise(r, NotAuthenticatedMessage)
    ELSE SetAuthenticated(r)

\* variant: a connected client is taken to be authenticated
ensure_authenticated_assumed(r) == SetAuthenticated(r)

\* variant: the flag is set before the provider is asked, and unset again when
\* the answer is no
ensure_authenticated_optimistic(r) ==
    IF Running(r) /\ ~r.c.is_authenticated
    THEN LET q == Call(SetAuthenticated(r), "is_user_authorized", NoArg)
         IN  IF q.need # "" \/ (Running(q) /\ q.out = "True") THEN q
             ELSE Raise([q EXCEPT !.c.is_authenticated = FALSE],
                        NotAuthenticatedMessage)
    ELSE r

\* ensure_connected: `if not self._is_authenticated:`
ensure_authenticated(r) ==
    IF Running(r) /\ ~r.c.is_authenticated
    THEN ensure_authorized(Call(r, "is_user_authorized", NoArg))
    ELSE r

\* TelegramUserClient.ensure_connected()
ensure_connected(r) ==
    ensure_authenticated(IF r.c.connected THEN r ELSE Call(r, "connect", NoArg))

\* a dialog the provider yields: its chat id, what kind of chat it is, and the
\* text of its last message (None when the dialog has no message)
Dialog(id, is_user, is_group, is_channel, message) ==
    [message |-> message, id |-> id, is_user |-> is_user, is_group |-> is_group,
     is_channel |-> is_channel]

\* message.text or ''
TextOr(text) == IF Truthy(text) THEN text ELSE ""

\* variant: a channel is looked for first
chat_type_channel_first(dialog) ==
    IF dialog.is_channel THEN "channel"
    ELSE IF dialog.is_group THEN "group" ELSE "user"

\* get_chats: 'user' if dialog.is_user else ('group' if dialog.is_group else 'channel')
chat_type(dialog) ==
    IF dialog.is_user THEN "user"
    ELSE IF dialog.is_group THEN "group" ELSE "channel"

\* get_chats: the chat_info of a dialog; last_message stands for the dict built
\* when the dialog has a message, by the text it holds
chat_info(dialog) ==
    [id |-> dialog.id, type |-> chat_type(dialog),
     last_message |-> IF dialog.message = None THEN None
                      ELSE TextOr(dialog.message)]

\* variant: the chat is put in front of the list
chats_prepend(chats, info) == <<info>> \o chats

\* get_chats: chats.append(chat_info)
chats_append(chats, info) == Append(chats, info)

\* get_chats: the loop over the dialogs the provider yields
RECURSIVE collect_chats(_, _)
collect_chats(dialogs, chats) ==
    IF dialogs = <<>> THEN chats
    ELSE collect_chats(Tail(dialogs), chats_append(chats, chat_info(Head(dialogs))))

\* what the provider's iterator yields of the items it holds, asked for at
\* most `limit` of them
Yielded(items, limit) ==
    SubSeq(items, 1, IF limit < Len(items) THEN limit ELSE Len(items))

\* TelegramUserClient.get_chats(limit)
get_chats(r, limit) ==
    Call(ensure_connected(r), "iter_dialogs", DataArg("", limit, 0, "", None))

\* TelegramUserClient.get_messages(chat_id, limit, offset)
get_messages(r, chat_id, limit, offset) ==
    Call(ensure_connected(r), "iter_messages", DataArg(chat_id, limit, offset, "", None))

\* a message the provider yields: its id and its sender, which is None, a
\* User, a Chat or a Channel, with the sender's id and names
Message(id, sender, sender_id, first_name, last_name) ==
    [id |-> id, sender |-> sender, sender_id |-> sender_id,
     first_name |-> first_name, last_name |-> last_name]

\* f"{sender.first_name or ''} {sender.last_name or ''}".strip()
from_name(first_name, last_name) ==
    IF Truthy(first_name) /\ Truthy(last_name) THEN first_name \o " " \o last_name
    ELSE IF Truthy(first_name) THEN first_name
    ELSE IF Truthy(last_name) THEN last_name
    ELSE ""

\* variant: every sender there is counts
sender_is_user_any(message) == message.sender # None

\* get_messages: `if message.sender:` and `if isinstance(sender, User):`
sender_is_user(message) == message.sender # None /\ message.sender = "User"

\* get_messages: the msg_dict of a message
msg_dict(message) ==
    [id |-> message.id,
     from_name |-> IF sender_is_user(message)
                   THEN from_name(message.first_name, message.last_name) ELSE None,
     from_id |-> IF sender_is_user(message) THEN message.sender_id ELSE None]

\* get_messages: the loop over the messages the provider yields
RECURSIVE collect_messages(_, _)
collect_messages(given, messages) ==
    IF given = <<>> THEN messages
    ELSE collect_messages(Tail(given), Append(messages, msg_dict(Head(given))))

\* variant: the send is issued a second time, whatever the first one answered
send_message_retried(r, chat_id, text, reply_to) ==
    Call(Caught(Call(ensure_connected(r), "send_message",
                     DataArg(chat_id, 0, 0, text, reply_to))),
         "send_message", DataArg(chat_id, 0, 0, text, reply_to))

\* TelegramUserClient.send_message(chat_id, text, reply_to)
send_message(r, chat_id, text, reply_to) ==
    Call(ensure_connected(r), "send_message", DataArg(chat_id, 0, 0, text, reply_to))

\* variant: the chat id of the message the provider returned is reported
sent_chat_id_peer(chat_id, peer) == peer

\* send_message: 'chat_id': chat_id in the dict returned; peer is the chat of
\* the message the provider returned
sent_chat_id(chat_id, peer) == chat_id

\* variant: disconnecting also drops the authenticated flag
disconnect_logout(r) ==
    IF r.c.connected
    THEN [Call(r, "disconnect", NoArg) EXCEPT !.c.is_authenticated = FALSE]
    ELSE r

\* TelegramUserClient.disconnect()
disconnect(r) == IF r.c.connected THEN Call(r, "disconnect", NoArg) ELSE r

---------------------------------------------------------------------------
(* main.py *)

\* get_api_credentials(), run when main.py is imported: sys.exit(1) when a
\* variable is missing or the id is no integer
get_api_credentials_exits(api_id_str, api_hash) ==
    ~Truthy(api_id_str) \/ ~Truthy(api_hash) \/ int_raises(api_id_str)

\* variant: the global client is constructed whether or not there is one
new_client_always(r, env) ==
    IF Running(r)
    THEN [r EXCEPT !.c = TelegramUserClient(env, env), !.made = r.made + 1] ELSE r

\* telegram_client = TelegramUserClient(...), when the global is None; made
\* counts the constructions
new_client(r, env) ==
    IF Running(r) /\ ~r.c.created
    THEN [r EXCEPT !.c = TelegramUserClient(env, env), !.made = r.made + 1] ELSE r

\* result = await telegram_client.start(): starts counts the calls
call_start(r) == IF Running(r) THEN [r EXCEPT !.starts = r.starts + 1] ELSE r

\* variant: start() is tried again as long as the client is not authenticated
initialize_until_authenticated(r, env) ==
    IF r.c.created /\ r.c.is_authenticated THEN r
    ELSE Resume(start(call_start(new_client(r, env)), None, None, None))

\* initialize_telegram_client(): the global client is created, with the stored
\* session, and started without arguments, only when there is none yet
initialize_telegram_client(r, env) ==
    IF r.c.created THEN r
    ELSE Resume(start(call_start(new_client(r, env)), None, None, None))

\* authenticate: "Step 1: Only phone_number provided"
is_step1(phone_number, verification_code) ==
    Truthy(phone_number) /\ ~Truthy(verification_code)

\* authenticate: "Step 2: Phone and code provided"
is_step2(phone_number, verification_code) ==
    Truthy(phone_number) /\ Truthy(verification_code)

\* authenticate: the except clauses of the try around step 1
step1_except(r) ==
    IF ~Raising(r) THEN r
    ELSE IF r.out = "ApiIdInvalidError" THEN ReturnError(r, "Invalid API Credentials")
    ELSE IF r.out = "PhoneNumberInvalidError" THEN ReturnError(r, "Invalid Phone Number")
    ELSE IF r.out = "FloodWaitError" THEN ReturnRateLimited(r, "Rate Limited")
    ELSE r

\* authenticate: the except clauses of the try around step 2
step2_except(r) ==
    IF ~Raising(r) THEN r
    ELSE IF r.out = "PhoneCodeInvalidError" THEN ReturnError(r, "Invalid Verification Code")
    ELSE IF r.out = "PhoneCodeExpiredError" THEN ReturnError(r, "Verification Code Expired")
    ELSE IF r.out = "FloodWaitError" THEN ReturnRateLimited(r, "Rate Limited")
    ELSE r

\* variant: the success text is returned without setting the flag
signed_in_flagless(r, headline) ==
    IF Running(r)
    THEN Return(r, Result(headline, TRUE, get_session_string(r.c), ""))
    ELSE r

\* authenticate: get_me answered; the flag is set, the session string read and
\* the success text returned
signed_in(r, headline) ==
    IF Running(r)
    THEN Return(SetAuthenticated(r),
                Result(headline, TRUE, get_session_string(r.c), ""))
    ELSE r

\* authenticate: except PasswordHashInvalidError, around the 2FA sign-in
password_except(r) ==
    IF Raising(r) /\ r.out = "PasswordHashInvalidError"
    THEN ReturnError(r, "Invalid Password") ELSE r

\* variant: the second factor is tried after any failure of the sign-in with
\* the code
step2_password_any(r, two_factor_password) ==
    IF Raising(r) /\ RaisedBy(r) = "sign_in"
    THEN IF ~Truthy(two_factor_password)
         THEN Return(Caught(r),
                     Result("Two-Factor Authentication Required", FALSE, "", ""))
         ELSE password_except(
                signed_in(Call(Call(Caught(r), "sign_in_password",
                                    Arg(None, None, two_factor_password)),
                               "get_me", NoArg),
                          "Authentication Successful! (2FA)"))
    ELSE r

\* authenticate: except SessionPasswordNeededError, around the sign-in with the code
step2_password(r, two_factor_password) ==
    IF Raising(r) /\ r.out = "SessionPasswordNeededError" /\ RaisedBy(r) # "connect"
    THEN IF ~Truthy(two_factor_password)
         THEN Return(Caught(r),
                     Result("Two-Factor Authentication Required", FALSE, "", ""))
         ELSE password_except(
                signed_in(Call(Call(Caught(r), "sign_in_password",
                                    Arg(None, None, two_factor_password)),
                               "get_me", NoArg),
                          "Authentication Successful! (2FA)"))
    ELSE r

\* variant: a client a former attempt left connected is taken to have
\* requested the code already
request_code_remembered(r, phone_number) ==
    IF r.c.connected THEN r
    ELSE Call(Call(r, "connect", NoArg), "send_code_request",
              Arg(phone_number, None, None))

\* variant: the code request is not dispatched
request_code_undispatched(r, phone_number) == Call(r, "connect", NoArg)

\* authenticate, step 1: connect and send the verification code
request_code(r, phone_number) ==
    Call(Call(r, "connect", NoArg), "send_code_request", Arg(phone_number, None, None))

\* authenticate: the three branches on the arguments
authenticate_steps(r, phone_number, verification_code, two_factor_password) ==
    IF is_step1(phone_number, verification_code)
    THEN step1_except(
            Return(request_code(r, phone_number),
                   Result("Code Sent Successfully", FALSE, "", "")))
    ELSE IF is_step2(phone_number, verification_code)
    THEN step2_except(
            step2_password(
                signed_in(Call(Call(Call(r, "connect", NoArg),
                                    "sign_in", Arg(phone_number, verification_code, None)),
                               "get_me", NoArg),
                          "Authentication Successful!"),
                two_factor_password))
    ELSE Return(r, Result("Invalid Parameters", FALSE, "", ""))

\* authenticate(phone_number, verification_code, two_factor_password); the
\* outermost except Exception returns the "Authentication Error" text
authenticate(r, env, phone_number, verification_code, two_factor_password) ==
    ReturnError(authenticate_steps(new_client(r, env), phone_number,
                                   verification_code, two_factor_password),
                "Authentication Error")

\* the arguments of a tool call; a key that is absent is None
Arguments(phone_number, phone, verification_code, code, two_factor_password, password) ==
    [phone |-> phone, code |-> code, password |-> password,
     phone_number |-> phone_number, verification_code |-> verification_code,
     two_factor_password |-> two_factor_password]
NoArguments == Arguments(None, None, None, None, None, None)

\* the arguments of a list_chats, get_messages or send_message call: the keys
\* present and their values (a value under an absent key is not read)
DataArguments(keys, chat_id, limit, offset, text, reply_to) ==
    [text |-> text, chat_id |-> chat_id, limit |-> limit, reply_to |-> reply_to,
     offset |-> offset, keys |-> keys]

\* arguments.get(key, default)
Get(arguments, key, default) ==
    IF key \in arguments.keys THEN arguments[key] ELSE default

\* arguments[key]: KeyError when the key is absent
subscript(r, arguments, key) ==
    IF Running(r) /\ key \notin arguments.keys THEN Raise(r, "KeyError") ELSE r

\* variant: the limit is passed on as it came
PyMin_first(a, b) == a

\* min(a, b)
PyMin(a, b) == IF b < a THEN b ELSE a

\* variant: a name that is none of the tools is served as list_chats
tool_dispatch_default(r, name, arguments) ==
    CASE name = "get_messages" ->
            Return(get_messages(subscript(r, arguments, "chat_id"), arguments.chat_id,
                                PyMin(Get(arguments, "limit", 10), 100),
                                Get(arguments, "offset", 0)),
                   Result("Retrieved messages", FALSE, "", ""))
      [] name = "send_message" ->
            Return(send_message(subscript(subscript(r, arguments, "chat_id"),
                                          arguments, "text"),
                                arguments.chat_id, arguments.text,
                                Get(arguments, "reply_to", None)),
                   [Result("Message sent successfully!", FALSE, "", "")
                        EXCEPT !.chat_id = sent_chat_id(arguments.chat_id,
                                                        PeerOf(arguments.chat_id))])
      [] OTHER -> Return(get_chats(r, 20), Result("Found chats", FALSE, "", ""))

\* call_tool: the branches on the tool name, after the client was initialized
tool_dispatch(r, name, arguments) ==
    CASE name = "list_chats" ->
            Return(get_chats(r, PyMin(Get(arguments, "limit", 20), 100)),
                   Result("Found chats", FALSE, "", ""))
      [] name = "get_messages" ->
            Return(get_messages(subscript(r, arguments, "chat_id"), arguments.chat_id,
                                PyMin(Get(arguments, "limit", 10), 100),
                                Get(arguments, "offset", 0)),
                   Result("Retrieved messages", FALSE, "", ""))
      [] name = "send_message" ->
            Return(send_message(subscript(subscript(r, arguments, "chat_id"),
                                          arguments, "text"),
                                arguments.chat_id, arguments.text,
                                Get(arguments, "reply_to", None)),
                   [Result("Message sent successfully!", FALSE, "", "")
                        EXCEPT !.chat_id = sent_chat_id(arguments.chat_id,
                                                        PeerOf(arguments.chat_id))])
      [] OTHER -> Return(r, Result("Unknown tool", FALSE, "", ""))

\* variant: the tool branches run outside the try
call_tool_unguarded(r, env, name, arguments) ==
    IF name = "authenticate"
    THEN authenticate(r, env,
                      PyOr(arguments.phone_number, arguments.phone),
                      PyOr(arguments.verification_code, arguments.code),
                      PyOr(arguments.two_factor_password, arguments.password))
    ELSE tool_dispatch(initialize_telegram_client(r, env), name, arguments)

\* call_tool(name, arguments); its except Exception returns the
\* "Error executing" text
call_tool(r, env, name, arguments) ==
    IF name = "authenticate"
    THEN authenticate(r, env,
                      PyOr(arguments.phone_number, arguments.phone),
                      PyOr(arguments.verification_code, arguments.code),
                      PyOr(arguments.two_factor_password, arguments.password))
    ELSE ReturnError(tool_dispatch(initialize_telegram_client(r, env), name, arguments),
                     "Error executing")

---------------------------------------------------------------------------
(* api/index.py *)

\* variant: `if not api_id and not api_hash`
credentials_error_and(api_id, api_hash) ==
    IF ~Truthy(api_id) /\ ~Truthy(api_hash)
    THEN "TELEGRAM_API_ID and TELEGRAM_API_HASH environment variables are required"
    ELSE IF int_raises(api_id) THEN "TELEGRAM_API_ID must be a valid integer"
    ELSE ""

\* _authenticate_async: the message of the error returned before a client is
\* constructed, "" when the credentials pass: `if not api_id or not api_hash`,
\* then int(api_id)
credentials_error(api_id, api_hash) ==
    IF ~Truthy(api_id) \/ ~Truthy(api_hash)
    THEN "TELEGRAM_API_ID and TELEGRAM_API_HASH environment variables are required"
    ELSE IF int_raises(api_id) THEN "TELEGRAM_API_ID must be a valid integer"
    ELSE ""

\* variant: the session string is added to every result
api_result_always(r) ==
    IF r.need = "" /\ r.ret
    THEN [r EXCEPT !.res.session_string = get_session_string(r.c)]
    ELSE r

\* _authenticate_async: `if result.get('status') == 'authenticated'` adds the
\* session string to the result
api_result(r) ==
    IF r.need = "" /\ r.ret /\ r.res.status = "authenticated"
    THEN [r EXCEPT !.res.session_string = get_session_string(r.c)]
    ELSE r

\* _authenticate_async: the except clauses around client.start(...)
api_except(r) ==
    IF Raising(r)
    THEN [r EXCEPT !.ret = TRUE, !.out = "ok",
                   !.res = [Result(IF r.out = "SessionPasswordNeededError"
                                   THEN "needs_password" ELSE "error",
                                   FALSE, "", r.out)
                            EXCEPT !.error_type = r.out,
                                   !.wait_seconds = IF r.out = "FloodWaitError"
                                                    THEN WaitSeconds ELSE ""]]
    ELSE r

\* variant: the disconnect of the cleanup is not guarded, its failure becomes
\* the result
api_finally_unguarded(r) ==
    IF r.need = "" /\ r.ret
    THEN IF Raising(disconnect(Resume(r)))
         THEN ReturnError(disconnect(Resume(r)), "error")
         ELSE [disconnect(Resume(r)) EXCEPT !.ret = TRUE, !.res = r.res]
    ELSE r

\* _authenticate_async: finally, client.disconnect() inside try/except; the
\* result returned stays the one computed before
api_finally(r) ==
    IF r.need = "" /\ r.ret
    THEN [Caught(disconnect(Resume(r))) EXCEPT !.ret = TRUE, !.res = r.res]
    ELSE r

\* handler._authenticate_async(phone, code, password): a client of its own,
\* started with the arguments and disconnected before the result is returned
authenticate_async(r, env, phone, code, password) ==
    api_finally(api_except(api_result(
        start([r EXCEPT !.c = TelegramUserClient(env, env)], phone, code, password))))

---------------------------------------------------------------------------
(* Invocations *)

\* an invocation: the entry point ("call_tool" of main.py, "api" of
\* api/index.py), the tool name and the arguments
Invocation(entry, name, arguments) ==
    [name |-> name, arguments |-> arguments, entry |-> entry]

\* the handler of invocation inv, on client c, the provider answering with script
Handle(inv, c, env, script) ==
    IF inv.entry = "api"
    THEN authenticate_async(NewRun(c, script), env, inv.arguments.phone,
                            inv.arguments.code, inv.arguments.password)
    ELSE call_tool(NewRun(c, script), env, inv.name, inv.arguments)

\* every complete execution of the handler: the provider's answer to each call
\* ranges over the outcomes that call can have
RECURSIVE Runs(_, _, _, _)
Runs(inv, c, env, script) ==
    LET r == Handle(inv, c, env, script)
    IN  IF r.need = "" THEN {r}
        ELSE UNION {Runs(inv, c, env, Append(script, o)) :
                        o \in Outcomes(r.need, r.needc, r.needa)}

\* the login arguments an invocation resolves to
LoginArgs(inv) ==
    IF inv.entry = "api"
    THEN Arg(inv.arguments.phone, inv.arguments.code, inv.arguments.password)
    ELSE IF inv.name # "authenticate" THEN NoArg
    ELSE Arg(PyOr(inv.arguments.phone_number, inv.arguments.phone),
             PyOr(inv.arguments.verification_code, inv.arguments.code),
             PyOr(inv.arguments.two_factor_password, inv.arguments.password))

\* the invocation is a login: the authenticate tool or the serverless endpoint
IsLogin(l) == l.entry = "api" \/ l.name = "authenticate"

\* the outcome of the first call of provider function `name` among cs ("" if none)
Answer(cs, name) ==
    IF \E i \in 1..Len(cs) : cs[i].name = name
    THEN cs[CHOOSE i \in 1..Len(cs) :
                cs[i].name = name /\ \A j \in 1..(i - 1) : cs[j].name # name].out
    ELSE ""

\* how many calls of provider function `name` are among cs
Count(cs, name) == Cardinality({i \in 1..Len(cs) : cs[i].name = name})

\* the result is the code-sent signal
CodeSentSignal(res) == res.status \in {"Code Sent Successfully", "needs_code"}

\* the login scenario after invocation l with result res and calls cs:
\* stage 1 a login with the phone alone returned the code-sent signal,
\* stage 2 then a login with phone and code was answered "invalid code",
\* stage 3 then a login with phone and code was accepted by the provider;
\* again: the invocation is a login with the same phone alone, right after
\* stage 1
NextScen(old, l, res, cs) ==
    LET a == LoginArgs(l)
        same == IsLogin(l) /\ old.entry = l.entry /\ old.phone = a.phone
        phoneOnly == IsLogin(l) /\ Truthy(a.phone) /\ ~Truthy(a.code)
        withCode == IsLogin(l) /\ Truthy(a.phone) /\ Truthy(a.code)
        stage ==
            IF phoneOnly /\ CodeSentSignal(res) THEN 1
            ELSE IF same /\ withCode /\ old.stage \in {1, 2}
                    /\ Answer(cs, "sign_in") = "PhoneCodeInvalidError" THEN 2
            ELSE IF same /\ withCode /\ old.stage = 2
                    /\ Answer(cs, "sign_in") = "ok" /\ Answer(cs, "get_me") = "ok" THEN 3
            ELSE 0
    IN  [phone |-> a.phone, entry |-> l.entry, stage |-> stage,
         again |-> (same /\ phoneOnly /\ old.stage = 1)]

---------------------------------------------------------------------------
(* Inputs *)

\* the tool arguments tried: each value under its key or under the key's alias
ToolArguments ==
    {Arguments(p[1], p[2], c[1], c[2], w[1], w[2]) :
        p \in {<<None, None>>, <<None, "">>, <<GoodPhone, None>>, <<"", BadPhone>>},
        c \in {<<None, None>>, <<WrongCode, None>>, <<None, GoodCode>>},
        w \in {<<None, None>>, <<WrongPassword, None>>, <<None, GoodPassword>>}}

\* the limits, offsets and chats tried
Limits == {-1, 0, 100, 101, 250}
Offsets == {-1, 0, 7}
ChatIds == {"777000", "@telegram"}

\* the arguments of list_chats tried: no limit, or one of the limits
ListChatsArguments ==
    {DataArguments({}, "", 0, 0, "", 0)}
    \cup {DataArguments({"limit"}, "", l, 0, "", 0) : l \in Limits}

\* the arguments of get_messages tried: no chat, a chat alone, a chat with a
\* limit, a chat with an offset
GetMessagesArguments ==
    {DataArguments({"limit"}, "", 250, 0, "", 0),
     DataArguments({"chat_id"}, "@telegram", 0, 0, "", 0)}
    \cup {DataArguments({"chat_id", "limit"}, "777000", l, 0, "", 0) : l \in Limits}
    \cup {DataArguments({"chat_id", "offset"}, "777000", 0, o, "", 0) : o \in Offsets}

\* the arguments of send_message tried: a chat and a text (empty or not), with
\* or without a message to reply to, and calls that lack the chat or the text
SendMessageArguments ==
    {DataArguments({"chat_id", "text"}, c, 0, 0, t, 0) : c \in ChatIds, t \in {"", "hello"}}
    \cup {DataArguments({"chat_id", "text", "reply_to"}, "777000", 0, 0, "hello", 42),
          DataArguments({"chat_id"}, "777000", 0, 0, "", 0),
          DataArguments({"text"}, "", 0, 0, "", 0)}

\* the arguments tried at the serverless endpoint
ApiArguments ==
    {Arguments(None, p, None, c, None, pw) :
        p \in {None, "", GoodPhone, BadPhone}, c \in {None, WrongCode, GoodCode},
        pw \in {None, WrongPassword, GoodPassword}}

---------------------------------------------------------------------------
(* The state machine *)

\* the concurrent callers of the SSE server, and the cap of the count of
\* constructions
NumTasks == 2
MaxConstructed == 2
Tasks == 1..NumTasks
Capped(n) == IF n < MaxConstructed THEN n ELSE MaxConstructed

\* a caller with no tool call under way
IdleTask == [name |-> "none", pc |-> "idle"]

\* no request is being served
Idle == Invocation("none", "none", NoArguments)

\* what a get_chats or get_messages call left in `data`: the limit it was given,
\* how the provider's iterator ended, the items the provider held and the list
\* the call returned
DataOf(op, limit, out, given, returned) ==
    [out |-> out, limit |-> limit, given |-> given, op |-> op, returned |-> returned]
NoData == DataOf("none", 0, "ok", <<>>, <<>>)

Init ==
    /\ TELEGRAM_API_ID \in ApiIds
    /\ TELEGRAM_API_HASH \in ApiHashes
    /\ TELEGRAM_SESSION \in SessionStrings
    /\ telegram_client = NoClient
    /\ last = Idle
    /\ result = NoResult
    /\ calls = <<>>
    /\ pre = NoClient
    /\ post = NoClient
    /\ scen = [phone |-> None, entry |-> "none", stage |-> 0, again |-> FALSE]
    /\ constructed = 0
    /\ start_calls = 0
    /\ tasks = [t \in Tasks |-> IdleTask]
    /\ data = NoData

\* main.py was imported: get_api_credentials() returned
Started == ~get_api_credentials_exits(TELEGRAM_API_ID, TELEGRAM_API_HASH)

\* what the caller of a handler gets: the result it returned, or, status
\* "raised", the exception that left it
Returned(r) == IF r.ret THEN r.res ELSE Result("raised", FALSE, "", r.out)

\* one tool call served by main.py, on the global client
Serve(name, arguments) ==
    /\ Started
    /\ last.entry = "none"
    /\ LET inv == Invocation("call_tool", name, arguments)
       IN  \E r \in Runs(inv, telegram_client, TELEGRAM_SESSION, <<>>) :
                /\ telegram_client' = r.c
                /\ last' = inv
                /\ result' = Returned(r)
                /\ calls' = r.calls
                /\ pre' = telegram_client
                /\ post' = r.c
                /\ scen' = NextScen(scen, inv, r.res, r.calls)
                /\ constructed' = Capped(constructed + r.made)
                /\ start_calls' = Capped(start_calls + r.starts)
                /\ UNCHANGED <<TELEGRAM_API_ID, TELEGRAM_API_HASH,
                               TELEGRAM_SESSION, tasks, data>>

ToolAuthenticate == \E a \in ToolArguments : Serve("authenticate", a)

ToolListChats == \E a \in ListChatsArguments : Serve("list_chats", a)

ToolGetMessages == \E a \in GetMessagesArguments : Serve("get_messages", a)

ToolSendMessage == \E a \in SendMessageArguments : Serve("send_message", a)

\* names that are none of the four tools
UnknownTools == {"delete_chat", "Authenticate", ""}

ToolUnknown == \E name \in UnknownTools : Serve(name, NoArguments)

\* the executions of _authenticate_async: the error returned for credentials
\* that do not pass, else the runs of the client it constructs
ApiRuns(inv) ==
    IF credentials_error(TELEGRAM_API_ID, TELEGRAM_API_HASH) # ""
    THEN {[NewRun(NoClient, <<>>) EXCEPT
              !.ret = TRUE,
              !.res = Result("error", FALSE, "",
                             credentials_error(TELEGRAM_API_ID, TELEGRAM_API_HASH))]}
    ELSE Runs(inv, NoClient, TELEGRAM_SESSION, <<>>)

\* one POST with method = 'authenticate' served by api/index.py: the client is
\* the request's own, `pre` is that client as constructed
ApiAuthenticate ==
    /\ last.entry = "none"
    /\ \E a \in ApiArguments :
        LET inv == Invocation("api", "authenticate", a)
        IN  \E r \in ApiRuns(inv) :
                /\ last' = inv
                /\ result' = Returned(r)
                /\ calls' = r.calls
                /\ pre' = IF r.c.created
                          THEN TelegramUserClient(TELEGRAM_SESSION, TELEGRAM_SESSION)
                          ELSE NoClient
                /\ post' = r.c
                /\ scen' = NextScen(scen, inv, r.res, r.calls)
                /\ UNCHANGED <<TELEGRAM_API_ID, TELEGRAM_API_HASH,
                               TELEGRAM_SESSION, telegram_client, constructed,
                               start_calls, tasks, data>>

\* every point where the handler is suspended on a provider call: the run up
\* to an await whose answer has not come
RECURSIVE Suspensions(_, _, _, _)
Suspensions(inv, c, env, script) ==
    LET r == Handle(inv, c, env, script)
    IN  IF r.need = "" THEN {}
        ELSE {r} \cup UNION {Suspensions(inv, c, env, Append(script, o)) :
                                o \in Outcomes(r.need, r.needc, r.needa)}

\* the client object when the task is cancelled at suspension r: the provider
\* call awaited may or may not have taken effect
CancelledAt(r) == {r.c, Effect(r.need, "ok", r.c, r.needa)}

\* a non-login tool call of main.py is cancelled while it awaits the provider:
\* CancelledError is raised at the await and no except Exception clause takes
\* it, so the global client stays as the handler left it at that point
CancelTool ==
    /\ Started
    /\ last.entry = "none"
    /\ \E name \in {"list_chats", "get_messages", "send_message"} :
       \E a \in (CASE name = "list_chats" -> ListChatsArguments
                   [] name = "get_messages" -> GetMessagesArguments
                   [] OTHER -> SendMessageArguments) :
        LET inv == Invocation("cancelled", name, a)
        IN  \E r \in Suspensions(inv, telegram_client, TELEGRAM_SESSION, <<>>) :
            \E c \in CancelledAt(r) :
                /\ telegram_client' = c
                /\ last' = inv
                /\ result' = Result("cancelled", FALSE, "", "CancelledError")
                /\ calls' = r.calls
                /\ pre' = telegram_client
                /\ post' = c
                /\ scen' = NextScen(scen, inv, NoResult, r.calls)
                /\ constructed' = Capped(constructed + r.made)
                /\ start_calls' = Capped(start_calls + r.starts)
                /\ UNCHANGED <<TELEGRAM_API_ID, TELEGRAM_API_HASH,
                               TELEGRAM_SESSION, tasks, data>>

\* the dialogs an account may hold: a user, a small group, a megagroup (a
\* channel that is a group) and a broadcast channel, each with or without a
\* last message, whose text may be empty
MaxDialogs == 2
DialogsTried ==
    {Dialog("100", TRUE, FALSE, FALSE, m) : m \in {None, "hi"}}
    \cup {Dialog("-200", FALSE, TRUE, FALSE, m) : m \in {None, ""}}
    \cup {Dialog("-1001", FALSE, TRUE, TRUE, m) : m \in {None, "hi"}}
    \cup {Dialog("-1002", FALSE, FALSE, TRUE, m) : m \in {None, "hi"}}
DialogLists == UNION {[1..k -> DialogsTried] : k \in 0..MaxDialogs}

\* the limits get_chats and get_messages are tried with
DataLimits == {0, 1, 2, 3}

\* a client that is connected and authenticated
ReadyClient ==
    [TelegramUserClient(VALID_SESSION, VALID_SESSION)
        EXCEPT !.connected = TRUE, !.is_authenticated = TRUE]

\* TelegramUserClient.get_chats(limit) on an account holding `dialogs`
GetChats ==
    \E dialogs \in DialogLists : \E limit \in DataLimits :
    \E o \in Outcomes("iter_dialogs", ReadyClient, NoArg) :
        /\ Started
        /\ data.op = "none"
        /\ data' = DataOf("get_chats", limit,
                          get_chats(NewRun(ReadyClient, <<o>>), limit).out,
                          dialogs,
                          IF Running(get_chats(NewRun(ReadyClient, <<o>>), limit))
                          THEN collect_chats(Yielded(dialogs, limit), <<>>)
                          ELSE <<>>)
        /\ UNCHANGED <<TELEGRAM_API_ID, TELEGRAM_API_HASH, TELEGRAM_SESSION,
                       telegram_client, last, result, calls, pre, post, scen,
                       constructed, start_calls, tasks>>

\* the messages a chat may hold: without sender, from a user (with or without
\* names), from a group and from a channel
MaxMessages == 2
MessagesTried ==
    {Message("7", None, None, None, None),
     Message("8", "Chat", "-200", None, None),
     Message("9", "Channel", "-1002", None, None)}
    \cup {Message("10", "User", "100", f, l) : f \in {None, "Ann"}, l \in {None, "Lee"}}
MessageLists == UNION {[1..k -> MessagesTried] : k \in 0..MaxMessages}

\* TelegramUserClient.get_messages(chat_id, limit, offset) on a chat holding
\* `given`
GetMessages ==
    \E given \in MessageLists : \E limit \in DataLimits :
    \E o \in Outcomes("iter_messages", ReadyClient, NoArg) :
        /\ Started
        /\ data.op = "none"
        /\ data' = DataOf("get_messages", limit,
                          get_messages(NewRun(ReadyClient, <<o>>), "777000", limit, 0).out,
                          given,
                          IF Running(get_messages(NewRun(ReadyClient, <<o>>),
                                                  "777000", limit, 0))
                          THEN collect_messages(Yielded(given, limit), <<>>)
                          ELSE <<>>)
        /\ UNCHANGED <<TELEGRAM_API_ID, TELEGRAM_API_HASH, TELEGRAM_SESSION,
                       telegram_client, last, result, calls, pre, post, scen,
                       constructed, start_calls, tasks>>

\* the list is handed to the caller; the next call is made after it
ReturnData ==
    /\ data.op # "none"
    /\ data' = NoData
    /\ UNCHANGED <<TELEGRAM_API_ID, TELEGRAM_API_HASH, TELEGRAM_SESSION,
                   telegram_client, last, result, calls, pre, post, scen,
                   constructed, start_calls, tasks>>

NextData == GetChats \/ GetMessages \/ ReturnData

SpecData == Init /\ [][NextData]_vars

\* the response is written to the caller; the next request is served after it
Respond ==
    /\ last.entry # "none"
    /\ last' = Idle
    /\ result' = NoResult
    /\ calls' = <<>>
    /\ pre' = NoClient
    /\ post' = NoClient
    /\ UNCHANGED <<TELEGRAM_API_ID, TELEGRAM_API_HASH, TELEGRAM_SESSION,
                   telegram_client, scen, constructed, start_calls, tasks,
                   data>>

Next ==
    \/ ToolAuthenticate
    \/ ToolListChats
    \/ ToolGetMessages
    \/ ToolSendMessage
    \/ ToolUnknown
    \/ ApiAuthenticate
    \/ CancelTool
    \/ Respond

Spec == Init /\ [][Next]_vars

---------------------------------------------------------------------------
(* Concurrent tool calls: the SSE server runs call_tool for several callers on
   one event loop; a call runs until it awaits the provider, where another
   call may run.  Only the suspension structure of call_tool and what it does
   to the global client object are kept here; the provider's answers are those
   of Spec. *)

\* the tools a caller may call, and the login arguments tried
TaskTools == {"authenticate", "list_chats", "get_messages", "send_message"}
TaskArguments(name) ==
    IF name = "authenticate"
    THEN {NoArguments,
          Arguments(GoodPhone, None, None, None, None, None),
          Arguments(None, GoodPhone, None, GoodCode, None, None)}
    ELSE {DataArguments({"chat_id", "text"}, "777000", 0, 0, "hello", 0)}

\* call_tool up to its first await on the provider (need = "" if it returns
\* without awaiting)
first_segment(name, arguments) ==
    call_tool(NewRun(telegram_client, <<>>), TELEGRAM_SESSION, name, arguments)

\* the first await is the start() of initialize_telegram_client
awaits_start(name) ==
    /\ name # "authenticate"
    /\ initialize_telegram_client(NewRun(telegram_client, <<>>), TELEGRAM_SESSION).need # ""

\* caller t calls a tool: call_tool runs to its first await; nothing holds it
\* back while another call is suspended
Begin(t) ==
    /\ Started
    /\ tasks[t].pc = "idle"
    /\ \E name \in TaskTools : \E a \in TaskArguments(name) :
        /\ telegram_client' = first_segment(name, a).c
        /\ constructed' = Capped(constructed + first_segment(name, a).made)
        /\ start_calls' = Capped(start_calls + first_segment(name, a).starts)
        /\ tasks' = [tasks EXCEPT ![t] =
                        IF first_segment(name, a).need = "" THEN IdleTask
                        ELSE [name |-> name,
                              pc |-> IF awaits_start(name) THEN "initialize"
                                     ELSE "operation"]]
    /\ UNCHANGED <<TELEGRAM_API_ID, TELEGRAM_API_HASH, TELEGRAM_SESSION, last,
                   result, calls, pre, post, scen, data>>

\* start() returned to initialize_telegram_client: the tool's own operation
\* is awaited next
Proceed(t) ==
    /\ tasks[t].pc = "initialize"
    /\ tasks' = [tasks EXCEPT ![t] = [name |-> tasks[t].name, pc |-> "operation"]]
    /\ UNCHANGED <<TELEGRAM_API_ID, TELEGRAM_API_HASH, TELEGRAM_SESSION,
                   telegram_client, last, result, calls, pre, post, scen,
                   constructed, start_calls, data>>

\* the operation returned and call_tool with it
Finish(t) ==
    /\ tasks[t].pc = "operation"
    /\ tasks' = [tasks EXCEPT ![t] = IdleTask]
    /\ UNCHANGED <<TELEGRAM_API_ID, TELEGRAM_API_HASH, TELEGRAM_SESSION,
                   telegram_client, last, result, calls, pre, post, scen,
                   constructed, start_calls, data>>

NextConc == \E t \in Tasks : Begin(t) \/ Proceed(t) \/ Finish(t)

SpecConc == Init /\ [][NextConc]_vars

---------------------------------------------------------------------------
(* Vocabulary of the properties *)

\* the request is one of the three non-login operations
IsTool(l) ==
    l.entry = "call_tool" /\ l.name \in {"list_chats", "get_messages", "send_message"}

\* the request carries the arguments its tool reads with arguments[key]
HasRequired(l) ==
    CASE l.name = "get_messages" -> "chat_id" \in l.arguments.keys
      [] l.name = "send_message" -> {"chat_id", "text"} \subseteq l.arguments.keys
      [] OTHER -> TRUE

\* the provider calls that read or write chats
DataCalls == {"iter_dialogs", "iter_messages", "send_message"}

\* the provider calls that log in
LoginCalls == {"send_code_request", "sign_in", "sign_in_password"}

\* the names of the provider calls issued
Issued(cs) == {cs[i].name : i \in 1..Len(cs)}

\* the provider calls that raised, the disconnect of the cleanup apart
Failures(cs) ==
    {i \in 1..Len(cs) : cs[i].out \notin {"ok", "True", "False"}
                        /\ cs[i].name # "disconnect"}

\* the credentials in the environment do not pass: an id or a hash that is
\* missing or empty, or an id that is no integer
CredentialsInvalid ==
    \/ ~Truthy(TELEGRAM_API_ID) \/ ~Truthy(TELEGRAM_API_HASH)
    \/ int_raises(TELEGRAM_API_ID)

\* the stored session string is one the provider accepts
StoredTokenValid == TELEGRAM_SESSION = VALID_SESSION

\* the session the request met was Unauthenticated: flag unset, no valid token
PreUnauthenticated ==
    /\ ~pre.is_authenticated
    /\ IF pre.created THEN ~pre.authorized ELSE ~StoredTokenValid

\* the error kind a result reports
ErrorKind(res) ==
    CASE res.status = "Invalid API Credentials" -> "InvalidCredentials"
      [] res.status = "Invalid Phone Number" -> "InvalidPhone"
      [] res.status = "Invalid Verification Code" -> "InvalidCode"
      [] res.status = "Verification Code Expired" -> "CodeExpired"
      [] res.status = "Invalid Password" -> "InvalidPassword"
      [] res.status = "Rate Limited" -> "RateLimited"
      [] res.status = "error" /\ res.error_type = "ApiIdInvalidError" -> "InvalidCredentials"
      [] res.status = "error" /\ res.error_type = "PhoneNumberInvalidError" -> "InvalidPhone"
      [] res.status = "error" /\ res.error_type = "PhoneCodeInvalidError" -> "InvalidCode"
      [] res.status = "error" /\ res.error_type = "PhoneCodeExpiredError" -> "CodeExpired"
      [] res.status = "error" /\ res.error_type = "PasswordHashInvalidError" -> "InvalidPassword"
      [] res.status = "error" /\ res.error_type = "FloodWaitError" -> "RateLimited"
      [] res.status = "Error executing" /\ res.message = NotAuthenticatedMessage ->
            "NotAuthenticated"
      [] res.status \in {"error", "Authentication Error", "Error executing"} -> "Unavailable"
      [] OTHER -> "none"

\* the error kind of a provider exception
KindOf(e) ==
    CASE e = "ApiIdInvalidError" -> "InvalidCredentials"
      [] e = "PhoneNumberInvalidError" -> "InvalidPhone"
      [] e = "PhoneCodeInvalidError" -> "InvalidCode"
      [] e = "PhoneCodeExpiredError" -> "CodeExpired"
      [] e = "PasswordHashInvalidError" -> "InvalidPassword"
      [] e = "FloodWaitError" -> "RateLimited"
      [] OTHER -> "Unavailable"

\* the result is the Authenticated outcome
AuthenticatedResult(res) ==
    res.status \in {"authenticated", "Authentication Successful!",
                    "Authentication Successful! (2FA)"}

---------------------------------------------------------------------------
(* Properties *)

C3_InvalidCode ==
    (IsLogin(last) /\ ~pre.is_authenticated
       /\ Answer(calls, "sign_in") = "PhoneCodeInvalidError")
        => (ErrorKind(result) = "InvalidCode" /\ ~post.is_authenticated)

\* C4: a login with the phone alone, right after a login with the same phone
\* alone returned the code-sent signal, returns the code-sent signal again,
\* dispatches exactly one code request, and leaves the session not
\* authenticated (whenever the provider answers its calls).
C4_CodeSentTwice ==
    (IsLogin(last) /\ scen.again /\ ~pre.is_authenticated)
        => /\ Count(calls, "send_code_request") <= 1
           /\ ~post.is_authenticated
           /\ (Failures(calls) = {}
                 => CodeSentSignal(result) /\ Count(calls, "send_code_request") = 1)

C4_Witness ==
    /\ scen.again /\ ~pre.is_authenticated /\ last.entry = "call_tool"
    /\ CodeSentSignal(result) /\ Count(calls, "send_code_request") = 1

\* C5: after login(phone) returned the code-sent signal and login(phone, code)
\* was rejected as an invalid code, a login(phone, code) the provider accepts
\* returns Authenticated with a non-empty session string, and the
\* authenticated flag is set.
C5_ScenarioSucceeds ==
    (IsLogin(last) /\ scen.stage = 3)
        => /\ AuthenticatedResult(result)
           /\ result.session # ""
           /\ post.is_authenticated

C5_Witness ==
    /\ scen.stage = 3 /\ last.entry = "call_tool"
    /\ result.status = "Authentication Successful!" /\ result.session = VALID_SESSION

\* C6 (as stated): with a stored session string the provider accepts, a login
\* with any arguments issues no code request and no sign-in and returns
\* Authenticated (whenever the provider answers its calls).
C6_StoredToken ==
    (IsLogin(last) /\ StoredTokenValid)
        => /\ Issued(calls) \cap LoginCalls = {}
           /\ (Failures(calls) = {} => AuthenticatedResult(result))

\* C7: a login without a phone, with no valid stored session, issues no code
\* request and no sign-in whatever code and password it is given, leaves the
\* authenticated flag as it was, and, the API credentials being in order,
\* reports that the phone is required (whenever the provider answers the calls
\* that validate a stored session).
C7_PhoneRequired ==
    (IsLogin(last) /\ ~Truthy(LoginArgs(last).phone) /\ ~StoredTokenValid)
        => /\ Issued(calls) \cap LoginCalls = {}
           /\ post.is_authenticated = pre.is_authenticated
           /\ (Failures(calls) = {} /\ ~CredentialsInvalid
                 => result.status \in {"needs_phone", "Invalid Parameters"})

C7_Witness ==
    /\ IsLogin(last) /\ ~StoredTokenValid
    /\ LoginArgs(last).phone = "" /\ Truthy(LoginArgs(last).code)
    /\ result.status = "needs_phone"

\* C8: when the provider answers the sign-in with the code by "second factor
\* required" and no password was given, the login returns the password-needed
\* signal, which is no error, tries no second-factor sign-in, and the session
\* is not authenticated.
C8_PasswordNeeded ==
    (IsLogin(last) /\ ~pre.is_authenticated
       /\ Answer(calls, "sign_in") = "SessionPasswordNeededError"
       /\ ~Truthy(LoginArgs(last).password))
        => /\ result.status \in {"needs_password", "Two-Factor Authentication Required"}
           /\ ErrorKind(result) = "none"
           /\ "sign_in_password" \notin Issued(calls)
           /\ ~post.is_authenticated

C8_Witness ==
    /\ IsLogin(last) /\ last.entry = "api"
    /\ Answer(calls, "sign_in") = "SessionPasswordNeededError"
    /\ result.status = "needs_password"

\* C9 (as stated): when the second-factor sign-in is rejected as a wrong
\* password, the login reports the InvalidPassword error kind, the
\* authenticated flag stays unset and no session string is returned.
C9_InvalidPassword ==
    (IsLogin(last) /\ ~pre.is_authenticated
       /\ Answer(calls, "sign_in_password") = "PasswordHashInvalidError")
        => /\ ErrorKind(result) = "InvalidPassword"
           /\ ~post.is_authenticated
           /\ result.session = ""

\* the terminal login failures
TerminalFailures ==
    {"ApiIdInvalidError", "PhoneNumberInvalidError", "PhoneCodeInvalidError",
     "PhoneCodeExpiredError", "PasswordHashInvalidError", "FloodWaitError"}

\* C10 (as stated): when a provider call of a login fails with a terminal
\* failure (bad API id/hash, malformed phone, invalid code, expired code, wrong
\* password, rate limiting), the result reports the error kind of that failure.
C10_DistinctKinds ==
    IsLogin(last)
        => \A i \in Failures(calls) :
              calls[i].out \in TerminalFailures
                  => ErrorKind(result) = KindOf(calls[i].out)

\* C11 (as stated): a login that returns an error outcome leaves the
\* authenticated flag as it was before the call, whichever provider call of the
\* login failed.
C11_ErrorKeepsFlag ==
    (IsLogin(last) /\ ErrorKind(result) # "none")
        => post.is_authenticated = pre.is_authenticated

\* C12: the authenticated flag of a client is set only if its provider session
\* is authorized (a sign-in succeeded or the provider confirmed the stored
\* session string); this holds of the global client in every state and of the
\* client of a request when the request returns, disconnected or not.
C12_FlagImpliesToken ==
    /\ telegram_client.is_authenticated => telegram_client.authorized
    /\ post.is_authenticated => post.authorized

C12_Witness ==
    /\ last.entry = "api" /\ post.is_authenticated /\ post.authorized
    /\ Answer(calls, "disconnect") = "ok" /\ ~post.connected

\* the callers whose tool call is suspended on the shared client
InFlight == {t \in Tasks : tasks[t].pc # "idle"}

\* C13: whatever the sequence and interleaving of authenticate and non-login
\* tool calls of main.py, the global client is constructed at most once: once
\* set it is never replaced.
C13_OneClient ==
    /\ constructed <= 1
    /\ constructed = 1 <=> telegram_client.created

C13_Witness ==
    /\ constructed = 1 /\ telegram_client.created
    /\ \E t, u \in InFlight : tasks[t].name = "authenticate" /\ tasks[u].pc = "initialize"

\* C14 (as stated): no two operations are in flight on the shared client at
\* the same time.
C14_OneAtATime == Cardinality(InFlight) <= 1

\* the provider confirmed the session or accepted a sign-in during the request
FlagWasSet(cs) ==
    \E i \in 1..Len(cs) :
        \/ cs[i].name = "is_user_authorized" /\ cs[i].out = "True"
        \/ cs[i].name \in {"sign_in", "sign_in_password"} /\ cs[i].out = "ok"

\* C15: once the authenticated flag of a client is set, no operation clears it:
\* no tool call of main.py (login with any arguments, list_chats, get_messages,
\* send_message, failed or not) clears the flag of the global client, and the
\* client of a serverless request whose flag was set still has it set after
\* the disconnect that ends the request.
C15_AuthenticatedTerminal ==
    /\ [][telegram_client.is_authenticated => telegram_client'.is_authenticated]_vars
    /\ [](last.entry = "api" /\ FlagWasSet(calls) => post.is_authenticated)

C15_Witness ==
    /\ last.entry = "call_tool" /\ pre.is_authenticated /\ post.is_authenticated
    /\ Failures(calls) # {}

\* C16: a login result carries a session string only when it is the
\* Authenticated outcome; the code-sent, password-needed and needs-phone
\* signals and every error carry none.
C16_TokenOnlyWhenAuthenticated ==
    (IsLogin(last) /\ (result.session # "" \/ result.session_string # ""))
        => AuthenticatedResult(result)

C16_Witness ==
    /\ last.entry = "api" /\ result.status = "authenticated"
    /\ result.session = VALID_SESSION /\ result.session_string = VALID_SESSION
    /\ Answer(calls, "sign_in") = "ok"

\* the request is a list_chats or get_messages call that gives a limit
GivesLimit(l) ==
    /\ l.entry = "call_tool" /\ l.name \in {"list_chats", "get_messages"}
    /\ "limit" \in l.arguments.keys

\* the request is a get_messages call that gives an offset
GivesOffset(l) ==
    /\ l.entry = "call_tool" /\ l.name = "get_messages"
    /\ "offset" \in l.arguments.keys

\* the request is a send_message call with a chat and a text
GivesText(l) ==
    /\ l.entry = "call_tool" /\ l.name = "send_message"
    /\ {"chat_id", "text"} \subseteq l.arguments.keys

\* C17: for a limit above 100 given to list_chats or get_messages, the limit
\* handed to the provider is exactly 100, and the call succeeds whenever the
\* provider answers every call it is asked.
C17_LimitClamped ==
    (GivesLimit(last) /\ last.arguments.limit > 100)
        => /\ \A i \in 1..Len(calls) :
                calls[i].name \in DataCalls => calls[i].arg.limit = 100
           /\ (Failures(calls) = {} /\ Issued(calls) \cap DataCalls # {}
                 => result.status \in {"Found chats", "Retrieved messages"})

C17_Witness ==
    /\ GivesLimit(last) /\ last.arguments.limit = 250
    /\ result.status = "Retrieved messages"
    /\ \E i \in 1..Len(calls) : calls[i].name = "iter_messages" /\ calls[i].arg.limit = 100

\* C18 (as stated): send_message with an empty text fails with InvalidArgument
\* and issues no provider call.
C18_EmptyTextRejected ==
    (GivesText(last) /\ last.arguments.text = "")
        => (calls = <<>> /\ ErrorKind(result) = "InvalidArgument")

\* C19 (as stated): list_chats and get_messages with a limit of zero or below,
\* or a negative offset, fail with InvalidArgument and issue no provider call.
C19_MalformedRejected ==
    (\/ GivesLimit(last) /\ last.arguments.limit <= 0
     \/ GivesOffset(last) /\ last.arguments.offset < 0)
        => (calls = <<>> /\ ErrorKind(result) = "InvalidArgument")

\* C20: the chat id reported by a successful send_message is the chat id it
\* was given.
C20_ChatIdRoundTrip ==
    (GivesText(last) /\ result.status = "Message sent successfully!")
        => result.chat_id = last.arguments.chat_id

C20_Witness ==
    /\ GivesText(last) /\ result.status = "Message sent successfully!"
    /\ last.arguments.chat_id = "@telegram" /\ result.chat_id = "@telegram"
    /\ "reply_to" \notin last.arguments.keys

\* C21: nothing is retried: a send_message call issues the provider's send at
\* most once, a login issues the code request at most once and each of the two
\* sign-ins at most once, whether the provider call succeeded or failed.
C21_NoRetry ==
    /\ (last.entry = "call_tool" /\ last.name = "send_message")
          => Count(calls, "send_message") <= 1
    /\ IsLogin(last)
          => \A name \in LoginCalls : Count(calls, name) <= 1

C21_Witness ==
    /\ last.entry = "call_tool" /\ last.name = "send_message"
    /\ Count(calls, "send_message") = 1
    /\ Answer(calls, "send_message") = "FloodWaitError"
    /\ result.status = "Error executing"

\* the exception of the provider call that ended the handler: the last call
\* issued, the disconnect of the cleanup apart, if it raised ("" if it did not)
LastFailure(cs) ==
    LET own == {i \in 1..Len(cs) : cs[i].name # "disconnect"}
    IN  IF own = {} THEN ""
        ELSE LET i == CHOOSE k \in own : \A j \in own : j <= k
             IN  IF i \in Failures(cs) THEN cs[i].out ELSE ""

\* C22: no failure of a provider call leaves a handler as an exception:
\* call_tool, for every tool name and arguments, authenticate and start (through
\* the serverless endpoint) return a result whatever the provider raised; when
\* the provider call that ended a login or a non-login operation raised, the
\* result is an error that carries the exception's message (the "second factor
\* required" answer to a login without password apart, which is the
\* password-needed signal).
C22_NoRawException ==
    last.entry # "none"
        => /\ result.status # "raised"
           /\ (/\ LastFailure(calls) # ""
               /\ (IsTool(last) \/ IsLogin(last))
               /\ HasRequired(last)
               /\ ~(IsLogin(last) /\ LastFailure(calls) = "SessionPasswordNeededError"
                      /\ ~Truthy(LoginArgs(last).password)))
                 => /\ ErrorKind(result) # "none"
                    /\ result.message = LastFailure(calls)

C22_Witness ==
    /\ last.entry = "call_tool" /\ last.name = "get_messages"
    /\ LastFailure(calls) = "ConnectionError"
    /\ Answer(calls, "iter_messages") = "ConnectionError"
    /\ result.status = "Error executing" /\ result.message = "ConnectionError"

C24_DisconnectNeverRaises ==
    \A c \in {telegram_client, post} :
    \A o1, o2 \in Outcomes("disconnect", c, NoArg) :
        LET once == disconnect(NewRun(c, <<o1, o2>>))
            twice == disconnect(once)
        IN  /\ ~Raising(once) /\ ~Raising(twice)
            /\ (~c.connected => once.calls = <<>>)

\* C25 (as stated): a login in which the provider answered a call (code
\* request, sign-in with the code, second-factor sign-in) by rate limiting
\* returns the RateLimited error kind and tells the seconds to wait the
\* provider gave, on every login entry point.
C25_RateLimitedHint ==
    IsLogin(last)
        => \A i \in Failures(calls) :
              calls[i].out = "FloodWaitError"
                  => /\ ErrorKind(result) = "RateLimited"
                     /\ result.wait_seconds = WaitSeconds

\* C26: with a stored session string the provider does not accept (and API
\* credentials that are in order), the session stays not authenticated and
\* the login goes on to the phone flow:
\* without a phone it reports that the phone is required and issues no code
\* request and no sign-in, with a phone alone it dispatches one code request
\* and returns the code-sent signal (whenever the provider answers its calls);
\* the serverless endpoint gets there after the provider refused the session.
C26_InvalidTokenFallsThrough ==
    (/\ IsLogin(last) /\ TELEGRAM_SESSION = REVOKED_SESSION /\ PreUnauthenticated
     /\ ~CredentialsInvalid /\ ~Truthy(LoginArgs(last).code))
        => /\ ~post.is_authenticated
           /\ Failures(calls) = {}
                 => /\ (last.entry = "api"
                          => Answer(calls, "is_user_authorized") = "False")
                    /\ IF ~Truthy(LoginArgs(last).phone)
                       THEN /\ result.status \in {"needs_phone", "Invalid Parameters"}
                            /\ Issued(calls) \cap LoginCalls = {}
                       ELSE /\ CodeSentSignal(result)
                            /\ Count(calls, "send_code_request") = 1

C26_Witness ==
    /\ last.entry = "api" /\ TELEGRAM_SESSION = REVOKED_SESSION
    /\ LoginArgs(last).phone = GoodPhone /\ ~Truthy(LoginArgs(last).code)
    /\ Answer(calls, "is_user_authorized") = "False"
    /\ result.status = "needs_code" /\ ~post.is_authenticated

\* C27: get_chats returns one chat record per dialog the provider yields, in
\* the provider's order, so at most `limit` of them when the provider yields
\* at most `limit`; the record of a dialog with no message has last_message
\* None.
C27_ChatsInOrder ==
    (data.op = "get_chats" /\ data.out = "ok")
        => /\ Len(data.returned) <= data.limit
           /\ Len(data.returned) = Len(Yielded(data.given, data.limit))
           /\ \A i \in 1..Len(data.returned) :
                /\ data.returned[i].id = data.given[i].id
                /\ (data.given[i].message = None
                      => data.returned[i].last_message = None)

C27_Witness ==
    /\ data.op = "get_chats" /\ data.out = "ok" /\ data.limit = 2
    /\ Len(data.given) = 2 /\ Len(data.returned) = 2
    /\ data.given[1].id # data.given[2].id
    /\ data.returned[1].id = data.given[1].id
    /\ data.given[2].message = None /\ data.returned[2].last_message = None
    /\ data.returned[1].last_message = "hi"

\* C28: a message returned by get_messages has a sender id and a sender name
\* only if the sender of the provider's message is a User; for a message with
\* no sender, or with a Chat or a Channel as sender, both are None.
C28_SenderOnlyForUser ==
    (data.op = "get_messages" /\ data.out = "ok")
        => \A i \in 1..Len(data.returned) :
              (data.returned[i].from_id # None \/ data.returned[i].from_name # None)
                  => data.given[i].sender = "User"

C28_Witness ==
    /\ data.op = "get_messages" /\ data.out = "ok" /\ Len(data.returned) = 2
    /\ data.given[1].sender = "Channel"
    /\ data.returned[1].from_id = None /\ data.returned[1].from_name = None
    /\ data.given[2].sender = "User"
    /\ data.returned[2].from_id = "100" /\ data.returned[2].from_name = "Ann Lee"

\* C29: the type of every chat record of get_chats is "user" when the dialog
\* is a user dialog, otherwise "group" when it is a group, otherwise "channel".
C29_ChatKind ==
    (data.op = "get_chats" /\ data.out = "ok")
        => \A i \in 1..Len(data.returned) :
              /\ data.returned[i].type \in {"user", "group", "channel"}
              /\ data.returned[i].type =
                    (IF data.given[i].is_user THEN "user"
                     ELSE IF data.given[i].is_group THEN "group" ELSE "channel")

C29_Witness ==
    /\ data.op = "get_chats" /\ data.out = "ok" /\ Len(data.returned) = 2
    /\ data.given[1].is_group /\ data.given[1].is_channel
    /\ data.returned[1].type = "group"
    /\ data.given[2].is_channel /\ ~data.given[2].is_group
    /\ data.returned[2].type = "channel"

\* C30: with an API id or API hash that is missing, or an API id that is no
\* integer, the serverless authentication returns an error, whatever its
\* arguments, without constructing a client and without any provider call;
\* main.py exits when it is imported, so it serves no tool call, constructs no
\* client and issues no provider call either.
C30_InvalidCredentials ==
    CredentialsInvalid
        => /\ last.entry \in {"none", "api"}
           /\ ~telegram_client.created /\ constructed = 0
           /\ last.entry = "api"
                 => /\ result.status = "error" /\ ErrorKind(result) # "none"
                    /\ calls = <<>>
                    /\ ~pre.created /\ ~post.created

C30_Witness ==
    /\ TELEGRAM_API_ID = "abc" /\ Truthy(TELEGRAM_API_HASH)
    /\ last.entry = "api" /\ LoginArgs(last).phone = GoodPhone
    /\ result.status = "error"
    /\ result.message = "TELEGRAM_API_ID must be a valid integer"
    /\ calls = <<>> /\ ~post.created

\* the provider's answers to the calls cs, in order
Outs(cs) == [i \in 1..Len(cs) |-> cs[i].out]

\* the client a login meets, less what former calls left on it besides the
\* token and the authenticated flag: the open connection
Forgotten(c) == [c EXCEPT !.connected = FALSE]

C32_StartCompletesFirst ==
    \A t, u \in Tasks :
        tasks[t].pc = "initialize"
            => ~(tasks[u].pc = "operation" /\ tasks[u].name # "authenticate")

\* C33: in a login the password is sent to the provider only right after the
\* sign-in with the code of that same login was answered "second factor
\* required": a login without phone or without code sends no password, nor
\* does one whose sign-in with the code succeeded or failed otherwise; the
\* password sent is the one the login was given.
C33_PasswordAfterChallenge ==
    IsLogin(last)
        => \A i \in 1..Len(calls) :
              calls[i].name = "sign_in_password"
                  => /\ i > 1
                     /\ calls[i - 1].name = "sign_in"
                     /\ calls[i - 1].out = "SessionPasswordNeededError"
                     /\ Truthy(LoginArgs(last).phone) /\ Truthy(LoginArgs(last).code)
                     /\ calls[i].arg.password = LoginArgs(last).password

C33_Witness ==
    /\ last.entry = "call_tool" /\ IsLogin(last)
    /\ LoginArgs(last).password = GoodPassword
    /\ Answer(calls, "sign_in") = "PhoneCodeExpiredError"
    /\ "sign_in_password" \notin Issued(calls)
    /\ result.status = "Verification Code Expired"

\* C34 (as stated): when start() returns status 'authenticated' the flag of
\* the client is set and the result carries the user and the session string;
\* and the flag of a client that had it unset is set after start() only if the
\* status returned is 'authenticated'.  start() is observed through the
\* serverless endpoint, which returns its result.
C34_AuthenticatedAtReturn ==
    (last.entry = "api" /\ ~CredentialsInvalid)
        => /\ result.status = "authenticated"
                 => post.is_authenticated /\ result.user /\ result.session # ""
           /\ (~pre.is_authenticated /\ post.is_authenticated)
                 => result.status = "authenticated"

\* the provider's answers to the calls cs, the last one turned into success
OutsButLast(cs) == [i \in 1..Len(cs) |-> IF i = Len(cs) THEN "ok" ELSE cs[i].out]

\* C35: a serverless authentication request that constructed a client
\* disconnects it before it returns, whatever the outcome: the provider's
\* disconnect is the last call of every request that connected, so the client
\* is left connected only when that disconnect itself failed; and the result
\* returned when the disconnect failed is the one returned when it succeeds.
C35_DisconnectBeforeReturn ==
    (last.entry = "api" /\ pre.created)
        => /\ \A i \in 1..Len(calls) : calls[i].name = "disconnect" => i = Len(calls)
           /\ Answer(calls, "connect") = "ok"
                 => calls[Len(calls)].name = "disconnect"
           /\ post.connected => Answer(calls, "disconnect") \notin {"", "ok"}
           /\ Answer(calls, "disconnect") \notin {"", "ok"}
                 => Returned(Handle(last, NoClient, TELEGRAM_SESSION, OutsButLast(calls)))
                        = result

C35_Witness ==
    /\ last.entry = "api" /\ pre.created
    /\ result.status = "authenticated" /\ result.session_string = VALID_SESSION
    /\ Answer(calls, "sign_in") = "ok"
    /\ Answer(calls, "disconnect") = "ConnectionError" /\ post.connected

\* a login on the global client has just returned Authenticated
LoggedIn ==
    last.entry = "call_tool" /\ IsLogin(last) /\ AuthenticatedResult(result)

\* C36: once a login on the global client has returned Authenticated, every
\* later list_chats, get_messages and send_message finds the flag set, does
\* not ask the provider whether the session is authorized, and is not
\* rejected as not authenticated.
C36_NoRequery ==
    [](LoggedIn
         => [](IsTool(last)
                 => /\ pre.is_authenticated
                    /\ "is_user_authorized" \notin Issued(calls)
                    /\ ErrorKind(result) # "NotAuthenticated"))

C36_Witness ==
    /\ IsTool(last) /\ TELEGRAM_SESSION = "" /\ pre.is_authenticated
    /\ "is_user_authorized" \notin Issued(calls)
    /\ result.status = "Message sent successfully!"

\* C37: main.py calls start() on its global client at most once, in the tool
\* call that finds no client and constructs it in initialize_telegram_client;
\* a call that finds a client, one the authenticate tool constructed included,
\* calls no start().
C37_StartOnce ==
    /\ [][start_calls' > start_calls
            => /\ ~telegram_client.created /\ telegram_client'.created
               /\ last'.name # "authenticate"]_vars
    /\ [](start_calls <= 1 /\ start_calls <= constructed)

C37_Witness ==
    /\ IsTool(last) /\ pre.created /\ constructed = 1 /\ start_calls = 0
    /\ TELEGRAM_SESSION = VALID_SESSION /\ result.status = "Found chats"

\* C38: call_tool with a name that is none of authenticate, list_chats,
\* get_messages and send_message returns the "Unknown tool" result and issues
\* no call that lists dialogs, reads messages or sends one (nor a code request
\* or a sign-in), whatever the start() of a first call meets.
C38_UnknownTool ==
    (last.entry = "call_tool"
       /\ last.name \notin {"authenticate", "list_chats", "get_messages", "send_message"})
        => /\ result.status = "Unknown tool"
           /\ Issued(calls) \cap (DataCalls \cup LoginCalls) = {}

C38_Witness ==
    /\ last.entry = "call_tool" /\ last.name = "Authenticate"
    /\ ~pre.created /\ post.is_authenticated
    /\ Answer(calls, "is_user_authorized") = "True"
    /\ result.status = "Unknown tool"

====
